---- MODULE Spec2Model ----
(***************************************************************************)
(* Model of the Updater of uv_highlight (src/main.py): the depsgraph       *)
(* handler that records "refresh not before" timestamps and the heartbeat  *)
(* that reconciles the snapshot cache with the host's selection.           *)
(*                                                                         *)
(* Time is counted in units of 0.01 s (the resolution of the two delays    *)
(* of depsgraph_handler).  A Python dict is a sequence of [k, v] records   *)
(* in insertion order, so that iteration order is the code's.              *)
(***************************************************************************)
EXTENDS Integers, Sequences, FiniteSets, TLC

\* ---------------------------------------------------------------- bounds
MaxTime == 1        \* last instant of the first window of clock readings
MaxUpdates == 1     \* change records per depsgraph_handler invocation

\* ------------------------------------------------------ program constants
Sentinel == -1      \* "no refresh scheduled"
Delay == 1          \* t + 0.01
Extend == 10        \* t + 0.1

\* ------------------------------------------------------------- the host
\* Scene objects the user selects, and what bpy.context.active_object can
\* be (it need not be selected); "Cam" is not a mesh.
Objects == {"A", "Cam"}
Actives == {"none", "A", "Cam"}
ObjType(o) == IF o = "Cam" THEN "CAMERA" ELSE "MESH"
\* The instants at which the clock is read: a window at the start and one
\* instant an extension after it.
Times == (0..MaxTime) \cup {Extend + MaxTime}
\* IDs a change record can name: an object, a datablock without a `type`
\* attribute ("Scn"), or nothing ("none").
UpdateIds == Objects \cup {"Scn", "none"}
HasType(e) == e \in Objects
\* The change records: a geometry change of each ID, and a change of "A"
\* that does not affect geometry.
Updates ==
    [id : UpdateIds, is_updated_geometry : {TRUE}]
    \cup {[id |-> "A", is_updated_geometry |-> FALSE]}
Modes == {"VERTEX", "EDGE"}
\* window_manager.operators[-1], or "none" when the list is empty.  Two
\* operators are the same object iff their uid is the same.
NoOp == [uid |-> "none", bl_idname |-> "-"]
Operators == {[uid |-> "op1", bl_idname |-> "UV_OT_select_all"],
              [uid |-> "op2", bl_idname |-> "UV_OT_select_all"],
              [uid |-> "op3", bl_idname |-> "TRANSFORM_OT_translate"]}
StartsWithSelect(name) == name = "UV_OT_select_all"

\* ------------------------------------------------------------ dict helpers
Keys(d) == {d[i].k : i \in 1..Len(d)}
Has(d, key) == key \in Keys(d)
Get(d, key) == (CHOOSE i \in 1..Len(d) : d[i].k = key) \* index of key
Val(d, key) == d[Get(d, key)].v
Put(d, key, val) ==
    IF Has(d, key) THEN [d EXCEPT ![Get(d, key)].v = val]
    ELSE Append(d, [k |-> key, v |-> val])
Del(d, key) == SelectSeq(d, LAMBDA e : e.k # key)

\* An outward call made by a step.
Call(c, id, sel) == [c |-> c, id |-> id, sel |-> sel]
Redraw == Call("tag_redraw_all_views", "-", FALSE)
V3dDisable == Call("view3d.disable", "-", FALSE)
WatchMouse == Call("watch_mouse", "-", FALSE)
V3dUpdate(id) == Call("view3d.update", id, FALSE)
UvUpdate(id) == Call("uv.update", id, FALSE)
DataUpdate(id, sel) == Call("data.update", id, sel)
V3dMode == Call("view3d.mode", "-", FALSE)

VARIABLES
    \* host state
    selected,          \* bpy.context.selected_objects (names)
    now,               \* time.perf_counter()
    \* Updater fields
    timer_running,
    uv_select_mode,
    mesh_data,
    last_update,
    op,
    uv_editor_visible,
    \* observation
    step               \* the last operation; for a tick, how it ended
vars == <<selected, now, timer_running, uv_select_mode, mesh_data,
          last_update, op, uv_editor_visible, step>>
updater == <<timer_running, uv_select_mode, mesh_data, last_update, op,
             uv_editor_visible>>

Init ==
    /\ selected = {}
    /\ now = 0
    /\ timer_running = FALSE
    /\ uv_select_mode = "VERTEX"
    /\ mesh_data = <<>>
    /\ last_update = <<>>
    /\ op = NoOp
    /\ uv_editor_visible = FALSE
    /\ step = "init"

\* ------------------------------------------------------- host operations
\* The user changes the selection.
Select(S) ==
    /\ selected' = S
    /\ selected' # selected
    /\ step' = "host"
    /\ UNCHANGED <<now, updater>>

\* The monotonic clock advances to a later instant.
Advance(t) ==
    /\ t > now
    /\ now' = t
    /\ step' = "host"
    /\ UNCHANGED <<selected, updater>>

\* ------------------------------------------------------------ Updater: stop
\* stop().  The handler is registered by start() when the add-on is loaded
\* and again after every stop(); the host may call it at any time.
stop ==
    /\ timer_running' = FALSE
    /\ step' = "stop"
    /\ UNCHANGED <<selected, now, uv_select_mode, mesh_data, last_update, op,
                   uv_editor_visible>>

\* ------------------------------------------------ Updater: get_active_objects
SceneOrder == <<"A", "Cam">>
\* The names of the selected objects, in the host's (scene) order.
get_active_objects(sel) == SelectSeq(SceneOrder, LAMBDA o : o \in sel)
Range(q) == {q[i] : i \in 1..Len(q)}

\* ------------------------------------------------ Updater: depsgraph handler
\* can_skip_depsgraph without the test of the entity's type (line 180).
can_skip_depsgraph_NoTypeTest(update, sel) ==
    IF update.id = "none" \/ ~update.is_updated_geometry THEN TRUE
    ELSE IF ~HasType(update.id) THEN TRUE
    ELSE IF \E name \in Range(get_active_objects(sel)) : name = update.id
         THEN FALSE
    ELSE TRUE

can_skip_depsgraph(update, sel) ==
    IF update.id = "none" \/ ~update.is_updated_geometry THEN TRUE
    ELSE IF ~HasType(update.id) THEN TRUE
    ELSE IF ObjType(update.id) # "MESH" THEN TRUE
    ELSE IF \E name \in Range(get_active_objects(sel)) : name = update.id
         THEN FALSE
    ELSE TRUE

\* RecordUpdate storing the current time, with no delay (line 216).
RecordUpdate_NoDelay(lu, name, t) ==
    LET lu1 == IF ~Has(lu, name) THEN Put(lu, name, Sentinel) ELSE lu
        last == Val(lu1, name)
    IN  IF t < last /\ last > 0 THEN Put(lu1, name, t + Extend)
        ELSE Put(lu1, name, t)

\* RecordUpdate without the longer delay of a repeated record (line 214).
RecordUpdate_NoCoalesce(lu, name, t) ==
    LET lu1 == IF ~Has(lu, name) THEN Put(lu, name, Sentinel) ELSE lu
    IN  Put(lu1, name, t + Delay)

\* RecordUpdate with the comparison of line 213 inverted.
RecordUpdate_InvertedTest(lu, name, t) ==
    LET lu1 == IF ~Has(lu, name) THEN Put(lu, name, Sentinel) ELSE lu
        last == Val(lu1, name)
    IN  IF t > last /\ last > 0 THEN Put(lu1, name, t + Extend)
        ELSE Put(lu1, name, t + Delay)

\* RecordUpdate adding the extension to the pending due time instead of the
\* current time (line 214).
RecordUpdate_FromDueTime(lu, name, t) ==
    LET lu1 == IF ~Has(lu, name) THEN Put(lu, name, Sentinel) ELSE lu
        last == Val(lu1, name)
    IN  IF t < last /\ last > 0 THEN Put(lu1, name, last + Extend)
        ELSE Put(lu1, name, t + Delay)

\* Lines 208-216: the new timestamp mapping after one qualifying record.
RecordUpdate(lu, name, t) ==
    LET lu1 == IF ~Has(lu, name) THEN Put(lu, name, Sentinel) ELSE lu
        last == Val(lu1, name)
    IN  IF t < last /\ last > 0 THEN Put(lu1, name, t + Extend)
        ELSE Put(lu1, name, t + Delay)

\* Lines 199-216: the loop over depsgraph.updates.
RECURSIVE HandleUpdates(_, _, _, _)
HandleUpdates(lu, updates, sel, t) ==
    IF updates = <<>> THEN lu
    ELSE LET u == Head(updates)
             lu1 == IF can_skip_depsgraph(u, sel) THEN lu
                    ELSE RecordUpdate(lu, u.id, t)
         IN  HandleUpdates(lu1, Tail(updates), sel, t)

UpdateSeqs == UNION {[1..n -> Updates] : n \in 0..MaxUpdates}

\* What an observer of the host sees of a record: it names no entity, is
\* not a geometry change, names an entity that is no MESH object, or names
\* an object that is not selected.
Unqualified(u, sel) ==
    \/ u.id = "none"
    \/ ~u.is_updated_geometry
    \/ u.id \notin {o \in Objects : ObjType(o) = "MESH"}
    \/ u.id \notin sel
\* The observation of one handler run that went through its records.
Observed(updates, sel) ==
    IF updates = <<>> THEN "empty"
    ELSE IF \A i \in 1..Len(updates) : Unqualified(updates[i], sel)
         THEN "skipped"
    ELSE "recorded"

depsgraph_handler(updates) ==
    /\ IF ~timer_running
       THEN /\ timer_running' = TRUE
            /\ step' = "timer"
            /\ UNCHANGED last_update
       ELSE /\ last_update' = HandleUpdates(last_update, updates, selected, now)
            /\ step' = Observed(updates, selected)
            /\ UNCHANGED timer_running
    /\ UNCHANGED <<selected, now, uv_select_mode, mesh_data, op,
                   uv_editor_visible>>

\* ------------------------------------------------------- Updater: heartbeat
\* The Updater fields a tick works on, the calls it has made so far, and
\* whether a KeyError has ended it.
TickState(md, lu, o, vis, mode, cs, err) ==
    [md |-> md, lu |-> lu, op |-> o, vis |-> vis, mode |-> mode,
     calls |-> cs, err |-> err]

\* mesh_data[id].update(obj, selection_only), and the pushes that follow
\* when it reports a change.
Refresh(s, id, selection_only, changed, redraw) ==
    LET pushes == IF id \in changed
                  THEN {V3dUpdate(id), UvUpdate(id)}
                       \cup (IF redraw THEN {Redraw} ELSE {})
                  ELSE {}
    IN  [s EXCEPT !.calls = s.calls \cup {DataUpdate(id, selection_only)}
                                    \cup pushes]

\* Obsolete with the membership test inverted (line 159).
Obsolete_Inverted(md, act) ==
    LET gone == SelectSeq(md, LAMBDA e : e.k \in Range(act))
    IN  [i \in 1..Len(gone) |-> gone[i].k]

\* free(), lines 157-160: the tracked identities that are no longer selected.
Obsolete(md, act) ==
    LET gone == SelectSeq(md, LAMBDA e : e.k \notin Range(act))
    IN  [i \in 1..Len(gone) |-> gone[i].k]

\* free(), lines 162-164.
RECURSIVE FreeLoop(_, _)
FreeLoop(s, obsolete) ==
    IF obsolete = <<>> \/ s.err THEN s
    ELSE LET id == Head(obsolete)
         IN  IF ~Has(s.lu, id) THEN [s EXCEPT !.err = TRUE]
             ELSE FreeLoop([s EXCEPT !.lu = Del(s.lu, id),
                                     !.md = Del(s.md, id)],
                           Tail(obsolete))

free(s, sel) == FreeLoop(s, Obsolete(s.md, get_active_objects(sel)))

\* heartbeat, lines 69-73.
MirrorMode(s, mode) ==
    IF mode # s.mode
    THEN [s EXCEPT !.mode = mode, !.calls = s.calls \cup {V3dMode, Redraw}]
    ELSE s

\* CreateEntries giving a new snapshot no timestamp (line 80).
RECURSIVE CreateEntries_NoTimestamp(_, _)
CreateEntries_NoTimestamp(s, act) ==
    IF act = <<>> THEN s
    ELSE LET id == Head(act)
             s1 == IF ~Has(s.md, id)
                   THEN [s EXCEPT !.md = Put(s.md, id, "Data")]
                   ELSE s
         IN  CreateEntries_NoTimestamp(s1, Tail(act))

\* heartbeat, lines 77-80.
RECURSIVE CreateEntries(_, _)
CreateEntries(s, act) ==
    IF act = <<>> THEN s
    ELSE LET id == Head(act)
             s1 == IF ~Has(s.md, id)
                   THEN [s EXCEPT !.md = Put(s.md, id, "Data"),
                                  !.lu = Put(s.lu, id, Sentinel)]
                   ELSE s
         IN  CreateEntries(s1, Tail(act))

\* heartbeat, lines 67-80: free, mirror the select mode, create entries.
Reconcile(s0, sel, mode) ==
    LET s1 == free(s0, sel)
    IN  IF s1.err THEN s1
        ELSE CreateEntries(MirrorMode(s1, mode), get_active_objects(sel))

\* handle_uv_edtitor_visibility_changed, lines 141-146.
RECURSIVE RefreshActive(_, _, _)
RefreshActive(s, act, changed) ==
    IF act = <<>> \/ s.err THEN s
    ELSE LET id == Head(act)
         IN  IF ~Has(s.md, id) THEN [s EXCEPT !.err = TRUE]
             ELSE RefreshActive(Refresh(s, id, FALSE, changed, TRUE),
                                Tail(act), changed)

\* handle_uv_edtitor_visibility_changed returning False after a transition
\* (line 151).
visibility_changed_NoReturn(s, act, visibility, enabled, changed) ==
    IF s.vis = visibility
    THEN [s |-> IF ~s.vis /\ enabled
                THEN [s EXCEPT !.calls = s.calls \cup {V3dDisable, Redraw}]
                ELSE s,
          ret |-> FALSE]
    ELSE LET s1 == [s EXCEPT !.vis = visibility]
         IN  [s |-> IF visibility
                    THEN RefreshActive(s1, act, changed)
                    ELSE [s1 EXCEPT !.calls = s1.calls \cup {V3dDisable, Redraw}],
              ret |-> FALSE]

\* handle_uv_edtitor_visibility_changed treating the editor's disappearance
\* as its appearance (lines 141-149).
visibility_changed_NoDisable(s, act, visibility, enabled, changed) ==
    IF s.vis = visibility
    THEN [s |-> IF ~s.vis /\ enabled
                THEN [s EXCEPT !.calls = s.calls \cup {V3dDisable, Redraw}]
                ELSE s,
          ret |-> FALSE]
    ELSE LET s1 == [s EXCEPT !.vis = visibility]
         IN  [s |-> RefreshActive(s1, act, changed), ret |-> TRUE]

\* handle_uv_edtitor_visibility_changed: [s, ret].
handle_uv_edtitor_visibility_changed(s, act, visibility, enabled, changed) ==
    IF s.vis = visibility
    THEN [s |-> IF ~s.vis /\ enabled
                THEN [s EXCEPT !.calls = s.calls \cup {V3dDisable, Redraw}]
                ELSE s,
          ret |-> FALSE]
    ELSE LET s1 == [s EXCEPT !.vis = visibility]
         IN  [s |-> IF visibility
                    THEN RefreshActive(s1, act, changed)
                    ELSE [s1 EXCEPT !.calls = s1.calls \cup {V3dDisable, Redraw}],
              ret |-> TRUE]

\* IdUpdatesLoop taking a timestamp equal to the current time as due
\* (line 99).
RECURSIVE IdUpdatesLoop_NotStrict(_, _, _, _, _, _)
IdUpdatesLoop_NotStrict(s, i, act, t, changed, result) ==
    IF i > Len(s.lu) \/ s.err THEN [s |-> s, ret |-> result]
    ELSE LET id == s.lu[i].k
             last == s.lu[i].v
         IN  IF t >= last /\ last > 0
             THEN LET s1 == [s EXCEPT !.lu = Put(s.lu, id, Sentinel)]
                  IN  IF ~Has(s1.md, id) \/ id \notin Range(act)
                      THEN [s |-> [s1 EXCEPT !.err = TRUE], ret |-> result]
                      ELSE IdUpdatesLoop_NotStrict(
                               Refresh(s1, id, FALSE, changed, TRUE),
                               i + 1, act, t, changed, TRUE)
             ELSE IdUpdatesLoop_NotStrict(s, i + 1, act, t, changed, result)

\* handle_id_updates, lines 98-107: the loop over last_update.items(),
\* from position i on; [s, ret].
RECURSIVE IdUpdatesLoop(_, _, _, _, _, _)
IdUpdatesLoop(s, i, act, t, changed, result) ==
    IF i > Len(s.lu) \/ s.err THEN [s |-> s, ret |-> result]
    ELSE LET id == s.lu[i].k
             last == s.lu[i].v
         IN  IF t > last /\ last > 0
             THEN LET s1 == [s EXCEPT !.lu = Put(s.lu, id, Sentinel)]
                  IN  IF ~Has(s1.md, id) \/ id \notin Range(act)
                      THEN [s |-> [s1 EXCEPT !.err = TRUE], ret |-> result]
                      ELSE IdUpdatesLoop(Refresh(s1, id, FALSE, changed, TRUE),
                                         i + 1, act, t, changed, TRUE)
             ELSE IdUpdatesLoop(s, i + 1, act, t, changed, result)

handle_id_updates(s, act, t, changed) ==
    IdUpdatesLoop(s, 1, act, t, changed, FALSE)

\* handle_selection_changed_ops, lines 122-125.
RECURSIVE SelectionLoop(_, _, _, _)
SelectionLoop(s, i, act, changed) ==
    IF i > Len(s.md) \/ s.err THEN s
    ELSE LET id == s.md[i].k
         IN  IF id \notin Range(act) THEN [s EXCEPT !.err = TRUE]
             ELSE SelectionLoop(Refresh(s, id, TRUE, changed, FALSE),
                                i + 1, act, changed)

\* handle_selection_changed_ops without the comparison with the last-seen
\* operation (line 116).
selection_changed_ops_NoCompare(s, act, o, changed) ==
    IF o = NoOp THEN [s |-> s, ret |-> FALSE]
    ELSE LET s1 == [s EXCEPT !.op = o]
         IN  [s |-> IF StartsWithSelect(o.bl_idname)
                    THEN SelectionLoop(s1, 1, act, changed)
                    ELSE s1,
              ret |-> TRUE]

\* handle_selection_changed_ops; o is operators[-1], NoOp when the list is
\* empty: [s, ret].
handle_selection_changed_ops(s, act, o, changed) ==
    IF o = NoOp THEN [s |-> s, ret |-> FALSE]
    ELSE IF o.uid # s.op.uid
         THEN LET s1 == [s EXCEPT !.op = o]
              IN  [s |-> IF StartsWithSelect(o.bl_idname)
                         THEN SelectionLoop(s1, 1, act, changed)
                         ELSE s1,
                   ret |-> TRUE]
         ELSE [s |-> s, ret |-> FALSE]

\* What the host reports to one tick: the active object, operators[-1],
\* the UV editor's visibility, the UV select mode, the 3D renderer's
\* enabled flag, and the identities whose Data.update reports a change.
TickInputs ==
    [active : Actives, o : Operators \cup {NoOp}, visibility : BOOLEAN,
     mode : Modes, enabled : BOOLEAN, changed : SUBSET Objects]

\* The fields after a tick do not depend on enabled and changed (they decide
\* calls only), and a tick without a MESH active object reads nothing else:
\* the inputs that lead to different states.
TickCases ==
    {in \in TickInputs :
        /\ ~in.enabled /\ in.changed = {}
        /\ in.active # "A" =>
              in.o = NoOp /\ ~in.visibility /\ in.mode = "VERTEX"}

\* HeartbeatBody storing the host's most recent operation before the
\* visibility step, not inside handle_selection_changed_ops (line 117).
HeartbeatBody_ConsumesOp(s0, sel, t, in) ==
    LET act == get_active_objects(sel)
        s2 == Reconcile(s0, sel, in.mode)
        s3 == IF in.o # NoOp THEN [s2 EXCEPT !.op = in.o] ELSE s2
        v == handle_uv_edtitor_visibility_changed(s3, act, in.visibility,
                                                  in.enabled, in.changed)
        u == handle_id_updates(v.s, act, t, in.changed)
        o == handle_selection_changed_ops([u.s EXCEPT !.op = s2.op], act,
                                          in.o, in.changed)
    IN  IF s2.err THEN [s |-> s2, end |-> "KeyError"]
        ELSE IF v.s.err THEN [s |-> v.s, end |-> "KeyError"]
        ELSE IF v.ret THEN [s |-> v.s, end |-> "visibility"]
        ELSE IF u.s.err THEN [s |-> u.s, end |-> "KeyError"]
        ELSE IF u.ret THEN [s |-> u.s, end |-> "due"]
        ELSE IF o.s.err THEN [s |-> o.s, end |-> "KeyError"]
        ELSE IF o.ret THEN [s |-> o.s, end |-> "selection"]
        ELSE [s |-> o.s, end |-> "idle"]

\* heartbeat, lines 67-90, for a MESH active object: [s, end].
HeartbeatBody(s0, sel, t, in) ==
    LET act == get_active_objects(sel)
        s2 == Reconcile(s0, sel, in.mode)
        v == handle_uv_edtitor_visibility_changed(s2, act, in.visibility,
                                                  in.enabled, in.changed)
        u == handle_id_updates(v.s, act, t, in.changed)
        o == handle_selection_changed_ops(u.s, act, in.o, in.changed)
    IN  IF s2.err THEN [s |-> s2, end |-> "KeyError"]
        ELSE IF v.s.err THEN [s |-> v.s, end |-> "KeyError"]
        ELSE IF v.ret THEN [s |-> v.s, end |-> "visibility"]
        ELSE IF u.s.err THEN [s |-> u.s, end |-> "KeyError"]
        ELSE IF u.ret THEN [s |-> u.s, end |-> "due"]
        ELSE IF o.s.err THEN [s |-> o.s, end |-> "KeyError"]
        ELSE IF o.ret THEN [s |-> o.s, end |-> "selection"]
        ELSE [s |-> o.s, end |-> "idle"]

Current ==
    TickState(mesh_data, last_update, op, uv_editor_visible, uv_select_mode,
              {WatchMouse}, FALSE)

\* Heartbeat without the test of the active object's type (line 64).
Heartbeat_NoTypeTest(s0, sel, t, in) ==
    IF in.active = "none"
    THEN [s |-> s0, end |-> "inactive"]
    ELSE HeartbeatBody(s0, sel, t, in)

\* heartbeat, lines 60-90: the fields after the tick, the calls it made and
\* how it ended.
Heartbeat(s0, sel, t, in) ==
    IF in.active = "none" \/ ObjType(in.active) # "MESH"
    THEN [s |-> s0, end |-> "inactive"]
    ELSE HeartbeatBody(s0, sel, t, in)

\* One tick.
heartbeat(in) ==
    \E r \in {Heartbeat(Current, selected, now, in)} :
        /\ step' = r.end
        /\ mesh_data' = r.s.md
        /\ last_update' = r.s.lu
        /\ op' = r.s.op
        /\ uv_editor_visible' = r.s.vis
        /\ uv_select_mode' = r.s.mode
        /\ UNCHANGED <<selected, now, timer_running>>

\* ------------------------------------------------------------ specification
Next ==
    \/ \E S \in SUBSET Objects : Select(S)
    \/ \E t \in Times : Advance(t)
    \/ stop
    \/ \E updates \in UpdateSeqs : depsgraph_handler(updates)
    \/ \E in \in TickCases : heartbeat(in)

Spec == Init /\ [][Next]_vars

\* -------------------------------------------------------------- properties
Pending(lu, X) == Has(lu, X) /\ Val(lu, X) > 0
Due(lu, X, t) == Pending(lu, X) /\ t > Val(lu, X)
Qualifying(X) == [id |-> X, is_updated_geometry |-> TRUE]
Meshes == {o \in Objects : ObjType(o) = "MESH"}
\* Ticks that find a MESH active object, and ticks that do not (with the
\* renderer enabled and every snapshot reporting a change, the inputs under
\* which a tick makes the most calls).
MeshTicks == {in \in TickInputs : in.active = "A"}
IdleTicks ==
    {in \in TickInputs : in.active # "A" /\ in.enabled /\ in.changed = Objects}
Tick(in) == Heartbeat(Current, selected, now, in)

\* C1: in every reachable state the keys of last_update are the keys of
\* mesh_data.
CE_C1_SameKeys == Keys(last_update) = Keys(mesh_data)

\* C2: no tick ends in a missing-key lookup (KeyError).
CE_C2_NoKeyError == step # "KeyError"

\* C3 (the part a finite run decides): a tick that finds X selected with a
\* pending timestamp either leaves the timestamp pending or performs the
\* refresh of X's snapshot (update with selection_only = False); the
\* scheduled refresh is never dropped without being performed.
CE_C3_RefreshNotDropped ==
    \A in \in MeshTicks : \A X \in Objects :
        (X \in selected /\ Pending(last_update, X)) =>
            LET r == Tick(in)
            IN  \/ Pending(r.s.lu, X)
                \/ DataUpdate(X, FALSE) \in r.s.calls

\* C4: once last_update[X] > 0 and while X stays selected, no step other
\* than a tick ending in the due-timestamp branch with X due makes the value
\* anything but > 0.
CE_C4_NoAbort ==
    [][\A X \in Objects :
         (Pending(last_update, X) /\ X \in selected /\ X \in selected') =>
             \/ Pending(last_update', X)
             \/ step' = "due" /\ Due(last_update, X, now)]_vars

\* C5: a handler run whose records are all absent, not geometry-affecting,
\* of no type or of a type other than MESH, or not selected, leaves
\* last_update (keys and values) and mesh_data unchanged.
Thm_C5_SkippedRecordsChangeNothing ==
    [][step' = "skipped" =>
         last_update' = last_update /\ mesh_data' = mesh_data]_vars
Witness_C5 ==
    /\ step = "skipped"
    /\ Pending(last_update, "A")
    /\ "Cam" \in selected /\ Has(mesh_data, "Cam")

\* C6: one qualifying record processed at time t for an identity with no
\* pending timestamp (absent, or the sentinel) gives last_update the value
\* t + 0.01, which is later than t.
Thm_C6_FreshRecordIsDueLater ==
    \A X \in Meshes :
        (X \in selected /\ (~Has(last_update, X)
                            \/ Val(last_update, X) = Sentinel)) =>
            LET lu == HandleUpdates(last_update, <<Qualifying(X)>>,
                                    selected, now)
            IN  Has(lu, X) /\ Val(lu, X) = now + Delay /\ Val(lu, X) > now
Witness_C6 ==
    /\ step = "recorded"
    /\ Has(last_update, "A") /\ Val(last_update, "A") = now + Delay

\* C7: a qualifying record for X processed at time t2 while X's pending
\* timestamp d1 is still in the future (t2 < d1) gives the due time
\* t2 + 0.1, which is greater than t2 + 0.01 and not earlier than d1.
Thm_C7_Coalescing ==
    \A X \in Meshes :
        (X \in selected /\ Has(last_update, X) /\ now < Val(last_update, X)) =>
            LET d1 == Val(last_update, X)
                lu == HandleUpdates(last_update, <<Qualifying(X)>>,
                                    selected, now)
            IN  /\ Val(lu, X) = now + Extend
                /\ Val(lu, X) > now + Delay
                /\ Val(lu, X) >= d1
Witness_C7 ==
    /\ step = "recorded"
    /\ Has(last_update, "A") /\ Val(last_update, "A") = now + Extend

\* C8: a tick that finds no active object, or an active object that is not
\* a MESH, leaves mesh_data, last_update, the last-seen operation, the
\* visibility flag and the selection mode as they were and calls no
\* renderer update or disable and no redraw.
Thm_C8_InactiveTickIsNoOp ==
    \A in \in IdleTicks :
        LET r == Tick(in)
        IN  /\ r.s.md = mesh_data
            /\ r.s.lu = last_update
            /\ r.s.op = op
            /\ r.s.vis = uv_editor_visible
            /\ r.s.mode = uv_select_mode
            /\ r.s.calls \subseteq {WatchMouse}
Witness_C8 ==
    /\ step = "inactive"
    /\ Has(mesh_data, "A") /\ Due(last_update, "A", now)
    /\ "Cam" \notin selected /\ Has(mesh_data, "Cam")

\* C9 as stated: with A and B tracked, B deselected and A still selected,
\* after the next tick B is a key of neither mesh_data nor last_update.
CE_C9_CleanupEveryTick ==
    \A A \in Objects, B \in Objects :
        (/\ Has(mesh_data, A) /\ Has(mesh_data, B)
         /\ A \in selected /\ B \notin selected) =>
            \A in \in TickInputs :
                LET r == Tick(in)
                IN  ~Has(r.s.md, B) /\ ~Has(r.s.lu, B)

\* C9 amended: ... after the next tick that finds a MESH active object B is
\* a key of neither mesh_data nor last_update, and the cleanup step leaves
\* A's snapshot entry and A's timestamp as they were.
Thm_C9_Cleanup ==
    \A A \in Objects, B \in Objects :
        (/\ Has(mesh_data, A) /\ Has(mesh_data, B)
         /\ A \in selected /\ B \notin selected) =>
            /\ \A in \in MeshTicks :
                  LET r == Tick(in)
                  IN  ~Has(r.s.md, B) /\ ~Has(r.s.lu, B)
            /\ LET f == free(Current, selected)
               IN  /\ Has(f.md, A) /\ Val(f.md, A) = Val(mesh_data, A)
                   /\ Has(f.lu, A) /\ Val(f.lu, A) = Val(last_update, A)
\* A and Cam are tracked, Cam has been deselected, and the tick drops Cam
\* and keeps A.
Witness_C9 ==
    /\ Has(mesh_data, "A") /\ Has(mesh_data, "Cam")
    /\ Pending(last_update, "A")
    /\ selected = {"A"}
    /\ \E in \in MeshTicks :
          /\ LET r == Tick(in)
             IN  Keys(r.s.md) = {"A"} /\ Keys(r.s.lu) = {"A"}

AtBranches(in) == Reconcile(Current, selected, in.mode)

\* C11: in a tick with a MESH active object and no visibility transition,
\* every identity X whose timestamp is due when the due-timestamp branch is
\* reached (0 < last_update[X] < now) has its timestamp reset to -1 and its
\* snapshot refreshed with selection_only = False, with the pushes to both
\* surfaces and a redraw when the refresh reports a change; and the tick
\* ends in the due branch, the selection-operation branch not run.
CE_C11_DueProcessing ==
    \A in \in MeshTicks :
        in.visibility = uv_editor_visible =>
            LET s2 == AtBranches(in)
                r == Tick(in)
            IN  \A X \in Objects :
                    Due(s2.lu, X, now) =>
                        /\ Val(r.s.lu, X) = Sentinel
                        /\ DataUpdate(X, FALSE) \in r.s.calls
                        /\ X \in in.changed =>
                              {V3dUpdate(X), UvUpdate(X), Redraw}
                                  \subseteq r.s.calls
                        /\ r.end = "due"
                        /\ r.s.op = op
                        /\ \A id \in Objects :
                              DataUpdate(id, TRUE) \notin r.s.calls

\* C12: every invocation of depsgraph_handler, whatever timer_running is,
\* leaves each identity named by one of its non-skipped records with a
\* last_update value greater than the current time.
CE_C12_EveryInvocationRecords ==
    [][\A updates \in UpdateSeqs :
         depsgraph_handler(updates) =>
             \A i \in 1..Len(updates) :
                 ~can_skip_depsgraph(updates[i], selected) =>
                     /\ Has(last_update', updates[i].id)
                     /\ Val(last_update', updates[i].id) > now]_vars

\* A tick reads neither step nor timer_running, and every reachable
\* valuation of the variables it reads is also reached by a host step (a
\* change of the selection and its reversal): the states in which the
\* outcome of a tick is examined for every input.
BeforeTick == step = "host"
\* The UV select mode a tick finds decides the mode mirror (lines 69-73)
\* only, and the 3D renderer's enabled flag the disable call of line 134
\* only: the ticks with a MESH active object, up to these two reads.
BranchTicks == {in \in MeshTicks : in.mode = "VERTEX" /\ ~in.enabled}
\* The fields when a tick with a MESH active object and no visibility
\* transition reaches the due-timestamp branch (line 86): those the
\* cleanup and creation steps leave; the visibility step changes none and
\* the branch reads none of the calls made before it.
AtDueBranch == Reconcile(Current, selected, uv_select_mode)
\* No timestamp is due when the due-timestamp branch is reached.
NoneDue == \A X \in Objects : ~Due(AtDueBranch.lu, X, now)

\* C13: when a tick reaches the due-timestamp branch, an identity whose
\* timestamp is not both > 0 and strictly less than the current time (the
\* sentinel, a future time, or the current time itself) is not refreshed by
\* the branch and keeps its timestamp; the branch adds and removes no key.
Thm_C13_NoEarlyRefresh ==
    BeforeTick =>
        LET s == AtDueBranch
        IN  \A changed \in SUBSET Objects :
                LET u == handle_id_updates(s, get_active_objects(selected),
                                           now, changed)
                IN  /\ Keys(u.s.lu) = Keys(s.lu)
                    /\ \A X \in Objects :
                          ~Due(s.lu, X, now) =>
                              /\ DataUpdate(X, FALSE) \notin u.s.calls
                              /\ Has(s.lu, X) =>
                                    Val(u.s.lu, X) = Val(s.lu, X)
\* A tick went through the due branch at the very instant A's timestamp
\* names, and left it pending.
Witness_C13 ==
    /\ step = "idle"
    /\ Has(mesh_data, "A")
    /\ Pending(last_update, "A") /\ Val(last_update, "A") = now

\* C14: the clock never going back, an invocation of depsgraph_handler
\* never makes a pending timestamp earlier: every identity with a value
\* d > 0 before has a value d' >= d after, and an invocation that processes
\* one qualifying record for X gives d' = t + 0.1 when d is still in the
\* future and d' = t + 0.01 when it is not.
Thm_C14_NeverEarlier ==
    [][step' \in {"timer", "empty", "skipped", "recorded"} =>
         \A X \in Objects :
             Pending(last_update, X) =>
                 /\ Has(last_update', X)
                 /\ Val(last_update', X) >= Val(last_update, X)
                 /\ (/\ timer_running
                     /\ X \in Meshes \cap selected
                     /\ depsgraph_handler(<<Qualifying(X)>>)) =>
                        Val(last_update', X) =
                            IF now < Val(last_update, X)
                            THEN now + Extend ELSE now + Delay]_vars
\* A record processed after the clock has advanced, while the timestamp of
\* A was still in the future, has extended it.
Witness_C14 ==
    /\ step = "recorded"
    /\ now > 0
    /\ Has(last_update, "A") /\ Val(last_update, "A") = now + Extend

\* C15: a tick makes a selection-only refresh (update with selection_only =
\* True) only if it has no visibility transition, finds no timestamp due,
\* and finds a most recent operation that is not the last-seen one and
\* whose name starts with the selection prefix; such a tick refreshes every
\* identity of mesh_data, pushes the changed ones to both surfaces, and
\* makes the operation the last-seen one.  A tick that finds the last-seen
\* operation again makes no selection-only refresh, and a tick that reaches
\* the step with any new operation makes it the last-seen one.
Thm_C15_SelectionStep ==
    BeforeTick =>
        LET nonedue == NoneDue
        IN  \A in \in BranchTicks :
                LET r == Tick(in)
                    fresh == in.o # NoOp /\ in.o.uid # op.uid
                    quiet == in.visibility = uv_editor_visible /\ nonedue
                IN  /\ (\E id \in Objects :
                            DataUpdate(id, TRUE) \in r.s.calls) =>
                          fresh /\ StartsWithSelect(in.o.bl_idname) /\ quiet
                    /\ (fresh /\ quiet) =>
                          /\ r.end = "selection"
                          /\ r.s.op = in.o
                          /\ StartsWithSelect(in.o.bl_idname) =>
                                \A id \in Keys(r.s.md) :
                                    /\ DataUpdate(id, TRUE) \in r.s.calls
                                    /\ id \in in.changed =>
                                          {V3dUpdate(id), UvUpdate(id)}
                                              \subseteq r.s.calls
                    /\ ~fresh => r.s.op = op
\* A tick has ended in the selection step with a selection operation while
\* a snapshot is tracked and its timestamp is pending but not due.
Witness_C15 ==
    /\ step = "selection"
    /\ StartsWithSelect(op.bl_idname)
    /\ Has(mesh_data, "A")
    /\ Pending(last_update, "A")

Thm_C17_SnapshotsHaveTimestamps ==
    /\ Keys(mesh_data) \subseteq Keys(last_update)
    /\ ~free(Current, selected).err
\* free() has a key to delete while last_update holds a key without a
\* snapshot.
Witness_C17 ==
    /\ Obsolete(mesh_data, get_active_objects(selected)) # <<>>
    /\ Keys(last_update) # Keys(mesh_data)
    /\ selected # {}

\* C18: the clock never going back, a timestamp gets a pending value only
\* from a handler run that processes a qualifying record for its identity,
\* and that value is at most the time of the run + 0.1; no other step
\* changes a pending value to another pending value.  So every pending
\* value is at most the time of the identity's most recent processed
\* notification + 0.1, hence at most the current time + 0.1, and is due
\* once the clock has passed that instant.
Thm_C18_BoundedDeferral ==
    [][\A X \in Objects :
         Pending(last_update', X) =>
             /\ Val(last_update', X) <= now' + Extend
             /\ \/ Pending(last_update, X)
                   /\ Val(last_update', X) = Val(last_update, X)
                \/ /\ step' = "recorded"
                   /\ X \in Meshes \cap selected
                   /\ now' = now
                   /\ Val(last_update', X) <= now + Extend]_vars
\* After a burst at time 0 that extended A's timestamp to 0.1, the clock
\* has passed 0.1 and the timestamp is due.
Witness_C18 ==
    /\ step = "host"
    /\ Has(last_update, "A") /\ Val(last_update, "A") = Extend
    /\ Due(last_update, "A", now)

\* C19 (the part a finite run decides): the one due-timestamp refresh that
\* a burst of notifications produces comes after the burst: a tick with a
\* MESH active object that comes while the timestamp of a selected
\* identity is pending and not yet due leaves that timestamp as the burst
\* set it.
CE_C19_BurstKeptUntilDue ==
    [][\A X \in Objects :
         (/\ step' \in {"visibility", "due", "selection", "idle"}
          /\ X \in selected
          /\ Pending(last_update, X) /\ now <= Val(last_update, X)) =>
             Has(last_update', X)
             /\ Val(last_update', X) = Val(last_update, X)]_vars

\* The tick that finds operation o as the host's most recent one, a MESH
\* active object and the visibility and select mode the Updater has stored.
QuietTick(o) ==
    Tick([active |-> "A", o |-> o, visibility |-> uv_editor_visible,
          mode |-> uv_select_mode, enabled |-> FALSE, changed |-> {}])

\* C20: no step other than a tick that ends in the selection-operation
\* step changes the last-seen operation; and after a tick that ended in the
\* visibility or the due-timestamp branch, a selection operation that is
\* not the last-seen one (so any that was the most recent one during that
\* tick) is found new by a tick that reaches the selection-operation step:
\* that tick refreshes every snapshot with selection_only = True and makes
\* the operation the last-seen one.
Thm_C20_OperationNotConsumed ==
    /\ [][step' # "selection" => op' = op]_vars
    /\ [](step \in {"visibility", "due"} =>
            (NoneDue =>
                \A o \in Operators :
                    (o.uid # op.uid /\ StartsWithSelect(o.bl_idname)) =>
                        LET r == QuietTick(o)
                        IN  /\ r.end = "selection"
                            /\ r.s.op = o
                            /\ \A id \in Keys(r.s.md) :
                                  DataUpdate(id, TRUE) \in r.s.calls))
\* A tick has ended in the due-timestamp branch with a snapshot tracked
\* and nothing left due.
Witness_C20 ==
    /\ step = "due"
    /\ Has(mesh_data, "A")
    /\ NoneDue

====
